---- MODULE Spec2Model ----
(***************************************************************************)
(* Model of package database (src/Mongo.go): the resolution of the Mongo   *)
(* connection configuration at start-up (func init) and the parsing of a   *)
(* connection URL into an mgo.DialInfo (func parseMongoURL).               *)
(*                                                                         *)
(* Go strings whose characters the code inspects (host, path, option       *)
(* values) are sequences of one-character strings; option keys, which the  *)
(* code only compares as a whole, are TLA+ strings.  A Go pointer or error *)
(* is a sequence of length 0 (nil) or 1 (the value pointed to).            *)
(***************************************************************************)
EXTENDS Integers, Sequences, FiniteSets, TLC

VARIABLES
    rawURL,     \* the argument of parseMongoURL (pure-function specification)
    first,      \* what the first call parseMongoURL(rawURL) returned, <<>> before it
    second,     \* what a second call on the same rawURL returned, <<>> before it
    env,        \* the process environment read by init
    pc,         \* position of init: "start", "dial", "setdb", "running", "fatal", "panic"
    dialinfo,   \* init's local dialinfo (*mgo.DialInfo)
    initErr,    \* the error init logged before aborting
    Database,   \* the package variable Database (*mgo.Database)
    session,    \* init's local session (*mgo.Session)
    path,       \* the configuration functions init called so far, in order
    dials,      \* number of calls of mgo.DialWithInfo
    dbWrites    \* number of assignments to Database

vars == <<rawURL, first, second, env, pc, dialinfo, initErr, Database, session, path, dials, dbWrites>>

parseVars == <<rawURL, first, second>>
initVars == <<env, pc, dialinfo, initErr, Database, session, path, dials, dbWrites>>

(***************************************************************************)
(* Bounds of the explored inputs.                                          *)
(***************************************************************************)
MaxHostLen == 3     \* characters in the host component
MaxQueryLen == 2    \* key=value pairs in the query string

(***************************************************************************)
(* String literals as character sequences.                                 *)
(***************************************************************************)
S_true == <<"t", "r", "u", "e">>
S_false == <<"f", "a", "l", "s", "e">>
S_True == <<"T", "r", "u", "e">>
S_False == <<"F", "a", "l", "s", "e">>
S_TRUE == <<"T", "R", "U", "E">>
S_FALSE == <<"F", "A", "L", "S", "E">>
S_direct == <<"d", "i", "r", "e", "c", "t">>
S_replicaSet == <<"r", "e", "p", "l", "i", "c", "a", "S", "e", "t">>

Digits == {"0", "1", "2", "3", "4", "5", "6", "7", "8", "9"}

DigitVal(c) ==
    CASE c = "0" -> 0 [] c = "1" -> 1 [] c = "2" -> 2 [] c = "3" -> 3 [] c = "4" -> 4
      [] c = "5" -> 5 [] c = "6" -> 6 [] c = "7" -> 7 [] c = "8" -> 8 [] c = "9" -> 9

(***************************************************************************)
(* Library functions the code calls, by what they compute.                 *)
(***************************************************************************)

\* strconv.Atoi: an optional sign, then one or more decimal digits.  (A value
\* outside the range of int is refused as well; no value explored here is
\* long enough to leave it.)
RECURSIVE DecimalValue(_, _)
DecimalValue(s, acc) ==
    IF s = <<>> THEN acc ELSE DecimalValue(Tail(s), 10 * acc + DigitVal(Head(s)))

Atoi(s) ==
    LET signed == s # <<>> /\ Head(s) \in {"+", "-"}
        body == IF signed THEN Tail(s) ELSE s
    IN  IF body = <<>> \/ \E i \in 1..Len(body) : body[i] \notin Digits
        THEN [ok |-> FALSE, n |-> 0]
        ELSE [ok |-> TRUE,
              n |-> IF signed /\ Head(s) = "-" THEN 0 - DecimalValue(body, 0)
                    ELSE DecimalValue(body, 0)]

\* strconv.ParseBool: exactly the twelve accepted spellings.
ParseBool(s) ==
    IF s \in {<<"1">>, <<"t">>, <<"T">>, S_TRUE, S_true, S_True}
    THEN [ok |-> TRUE, b |-> TRUE]
    ELSE IF s \in {<<"0">>, <<"f">>, <<"F">>, S_FALSE, S_false, S_False}
    THEN [ok |-> TRUE, b |-> FALSE]
    ELSE [ok |-> FALSE, b |-> FALSE]

\* strings.Split(s, sep) for a one-character separator: the segments between
\* the separators, in order; n separators give n+1 segments.
RECURSIVE SplitFrom(_, _, _)
SplitFrom(s, sep, cur) ==
    IF s = <<>> THEN <<cur>>
    ELSE IF Head(s) = sep THEN <<cur>> \o SplitFrom(Tail(s), sep, <<>>)
    ELSE SplitFrom(Tail(s), sep, Append(cur, Head(s)))

\* A segment splitter that drops empty segments (what strings.FieldsFunc does).
RECURSIVE DropEmpty(_)
DropEmpty(segs) ==
    IF segs = <<>> THEN <<>>
    ELSE IF Head(segs) = <<>> THEN DropEmpty(Tail(segs))
    ELSE <<Head(segs)>> \o DropEmpty(Tail(segs))

SplitNoEmpty(s, sep) == DropEmpty(SplitFrom(s, sep, <<>>))

Split(s, sep) == SplitFrom(s, sep, <<>>)

\* strings.TrimPrefix(s, "/")
TrimPrefix(s, c) == IF s # <<>> /\ Head(s) = c THEN Tail(s) ELSE s


\* strings.LastIndex(s, c) for a one-character c; 0 when c does not occur.
LastIndex(s, c) ==
    LET at == {i \in 1..Len(s) : s[i] = c}
    IN  IF at = {} THEN 0 ELSE CHOOSE i \in at : \A j \in at : j <= i

\* strings.Index(s, c) for a one-character c; 0 when c does not occur.
Index(s, c) ==
    LET at == {i \in 1..Len(s) : s[i] = c}
    IN  IF at = {} THEN 0 ELSE CHOOSE i \in at : \A j \in at : i <= j

\* net/url: the host is refused when what follows its last ':' is not a run
\* of digits, or when it holds a character that must be escaped (a space).
ValidHost(h) ==
    LET i == LastIndex(h, ":")
    IN  /\ i > 0 => \A j \in (i + 1)..Len(h) : h[j] \in Digits
        /\ \A j \in 1..Len(h) : h[j] # " "

\* net/url: the authority is [userinfo@]host, cut at the last '@'; the
\* userinfo is username[:password], cut at the first ':'.
ParseUserinfo(ui) ==
    LET i == Index(ui, ":")
    IN  IF i = 0
        THEN [username |-> ui, password |-> <<>>, passwordSet |-> FALSE]
        ELSE [username |-> SubSeq(ui, 1, i - 1),
              password |-> SubSeq(ui, i + 1, Len(ui)),
              passwordSet |-> TRUE]

\* url.Parse(rawURL) on "mongodb://" authority path "?" query: the *url.URL,
\* or an error.
urlParse(raw) ==
    LET i == LastIndex(raw.Authority, "@")
        host == SubSeq(raw.Authority, i + 1, Len(raw.Authority))
    IN  IF ~ValidHost(host)
        THEN [ok |-> FALSE,
              err |-> [prefix |-> "parse: invalid host ", key |-> "", sep |-> "", value |-> host]]
        ELSE [ok |-> TRUE,
              url |-> [User |-> IF i = 0 THEN <<>>
                                ELSE <<ParseUserinfo(SubSeq(raw.Authority, 1, i - 1))>>,
                       Host |-> host,
                       Path |-> raw.Path,
                       RawQuery |-> raw.RawQuery]]

\* url.Query(): each key of the query string with its values, in the order
\* in which they were written.
RECURSIVE ValuesOf(_, _)
ValuesOf(pairs, k) ==
    IF pairs = <<>> THEN <<>>
    ELSE IF Head(pairs).key = k THEN <<Head(pairs).value>> \o ValuesOf(Tail(pairs), k)
    ELSE ValuesOf(Tail(pairs), k)

Query(url) ==
    [k \in {url.RawQuery[i].key : i \in 1..Len(url.RawQuery)} |-> ValuesOf(url.RawQuery, k)]

(***************************************************************************)
(* mgo.DialInfo.  DialServer is "nil" or "tls" (the closure that dials     *)
(* with tls.Dial); Timeout is in seconds.                                  *)
(***************************************************************************)
ZeroDialInfo ==
    [Addrs |-> <<>>, Database |-> <<>>, Timeout |-> 0, Username |-> <<>>, Password |-> <<>>,
     Source |-> <<>>, Mechanism |-> <<>>, Service |-> <<>>, ReplicaSetName |-> <<>>,
     PoolLimit |-> 0, Direct |-> FALSE, DialServer |-> "nil"]

TimeoutSeconds == 10

Continue(info) == [info |-> info, err |-> <<>>]
Fail(prefix, key, sep, value) ==
    [info |-> ZeroDialInfo,
     err |-> <<[prefix |-> prefix, key |-> key, sep |-> sep, value |-> value]>>]

(***************************************************************************)
(* func parseMongoURL                                                      *)
(***************************************************************************)

\* The composite literal: the host split at every ',', with empty segments dropped.
NewInfoDropEmpty(url) ==
    [ZeroDialInfo EXCEPT !.Addrs = SplitNoEmpty(url.Host, ","),
                         !.Database = TrimPrefix(url.Path, "/"),
                         !.Timeout = TimeoutSeconds]

\* info := mgo.DialInfo{Addrs: ..., Database: ..., Timeout: ...}
NewInfo(url) ==
    [ZeroDialInfo EXCEPT !.Addrs = Split(url.Host, ","),
                         !.Database = TrimPrefix(url.Path, "/"),
                         !.Timeout = TimeoutSeconds]

\* if url.User != nil { ... }
WithUser(info, url) ==
    IF url.User # <<>>
    THEN [info EXCEPT !.Username = url.User[1].username,
                      !.Password = url.User[1].password]
    ELSE info

\* The value of a key taken from the end of its list.
LastValue(values) == IF Len(values) > 0 THEN values[Len(values)] ELSE <<>>

\* var value string; if len(values) > 0 { value = values[0] }
FirstValue(values) == IF Len(values) > 0 THEN values[1] ELSE <<>>

\* case "maxPoolSize" that keeps the default when the value is no integer.
CaseMaxPoolSizeLenient(info, value) ==
    IF ~Atoi(value).ok THEN Continue(info)
    ELSE Continue([info EXCEPT !.PoolLimit = Atoi(value).n])

CaseMaxPoolSize(info, value) ==
    IF ~Atoi(value).ok THEN Fail("bad value for maxPoolSize: ", "", "", value)
    ELSE Continue([info EXCEPT !.PoolLimit = Atoi(value).n])

\* case "ssl" that reads every value that is not a boolean as false.
CaseSslLenient(info, value) ==
    IF ParseBool(value).ok /\ ParseBool(value).b
    THEN Continue([info EXCEPT !.DialServer = "tls"])
    ELSE Continue(info)

CaseSsl(info, value) ==
    IF ~ParseBool(value).ok THEN Fail("bad value for ssl: ", "", "", value)
    ELSE IF ParseBool(value).b THEN Continue([info EXCEPT !.DialServer = "tls"])
    ELSE Continue(info)

\* default: that drops the value from the message.
CaseDefaultNoValue(key, value) ==
    Fail("unsupported connection URL option: ", key, "=", <<>>)

CaseDefault(key, value) ==
    Fail("unsupported connection URL option: ", key, "=", value)

\* case "connect" without the fallthrough: any other value is accepted.
CaseConnectNoFallthrough(info, key, value) ==
    IF value = S_direct THEN Continue([info EXCEPT !.Direct = TRUE])
    ELSE Continue(info)

CaseConnect(info, key, value) ==
    IF value = S_direct THEN Continue([info EXCEPT !.Direct = TRUE])
    ELSE IF value = S_replicaSet THEN Continue(info)
    ELSE CaseDefault(key, value)

\* switch key { ... }: one pass of the loop body.
Switch(info, key, value) ==
    CASE key = "authSource" -> Continue([info EXCEPT !.Source = value])
      [] key = "authMechanism" -> Continue([info EXCEPT !.Mechanism = value])
      [] key = "gssapiServiceName" -> Continue([info EXCEPT !.Service = value])
      [] key = "replicaSet" -> Continue([info EXCEPT !.ReplicaSetName = value])
      [] key = "maxPoolSize" -> CaseMaxPoolSize(info, value)
      [] key = "ssl" -> CaseSsl(info, value)
      [] key = "connect" -> CaseConnect(info, key, value)
      [] OTHER -> CaseDefault(key, value)

\* The loop in which the break of case "connect" leaves the loop, not the switch.
RECURSIVE RangeBreaksLoop(_, _, _, _)
RangeBreaksLoop(info, query, order, i) ==
    IF i > Len(order) THEN [info |-> <<info>>, err |-> <<>>]
    ELSE LET r == Switch(info, order[i], FirstValue(query[order[i]]))
         IN  IF r.err # <<>> THEN [info |-> <<>>, err |-> r.err]
             ELSE IF order[i] = "connect" THEN [info |-> <<r.info>>, err |-> <<>>]
             ELSE RangeBreaksLoop(r.info, query, order, i + 1)

\* for key, values := range query { ... }; return &info, nil.  Go visits the
\* keys of a map in an unspecified order: order is the order of this run.
RECURSIVE Range(_, _, _, _)
Range(info, query, order, i) ==
    IF i > Len(order) THEN [info |-> <<info>>, err |-> <<>>]
    ELSE LET r == Switch(info, order[i], FirstValue(query[order[i]]))
         IN  IF r.err # <<>> THEN [info |-> <<>>, err |-> r.err]
             ELSE Range(r.info, query, order, i + 1)

\* The orders in which a range over a map with these keys can visit them.
Orders(keys) ==
    {o \in [1..Cardinality(keys) -> keys] : \A i, j \in 1..Cardinality(keys) : i # j => o[i] # o[j]}

parseMongoURL(raw, order) ==
    LET u == urlParse(raw)
    IN  IF ~u.ok THEN [info |-> <<>>, err |-> <<u.err>>]
        ELSE Range(WithUser(NewInfo(u.url), u.url), Query(u.url), order, 1)

\* The orders a call on raw can take (none matters when url.Parse fails).
OrdersOf(raw) == Orders({raw.RawQuery[i].key : i \in 1..Len(raw.RawQuery)})

\* Every result a call on raw can return.
Results(raw) == {parseMongoURL(raw, o) : o \in OrdersOf(raw)}


(***************************************************************************)
(* The inputs explored.                                                    *)
(***************************************************************************)
SeqsUpTo(A, n) == UNION {[1..k -> A] : k \in 0..n}

HostAlphabet == {"a", ",", ":", "1", " "}
Hosts == SeqsUpTo(HostAlphabet, MaxHostLen)

Userinfos == {<<"u">>, <<"u", ":", "p">>, <<"u", ":">>}
Paths == {<<>>, <<"/">>, <<"/", "d">>, <<"/", "/", "d">>}

Pair(k, v) == [key |-> k, value |-> v]

Pairs ==
    {Pair("authSource", <<"x">>), Pair("authMechanism", <<"m">>),
     Pair("gssapiServiceName", <<"g">>), Pair("replicaSet", <<"r">>),
     Pair("foo", <<"b", "a", "r">>), Pair("SSL", S_true)}
    \cup {Pair("maxPoolSize", v) : v \in {<<"5", "0">>, <<"+", "5">>, <<"-", "5">>, <<"a", "b", "c">>}}
    \cup {Pair("ssl", v) : v \in {S_true, S_false, <<"1">>, <<"y", "e", "s">>}}
    \cup {Pair("connect", v) : v \in {S_direct, S_replicaSet, <<"b", "o", "g", "u", "s">>}}

Queries == SeqsUpTo(Pairs, MaxQueryLen)

URL(a, p, q) == [Authority |-> a, Path |-> p, RawQuery |-> q]

\* Every host with and without an unknown option; every userinfo and path
\* with every query of at most one pair; every query on a two-host URL.
URLs ==
    {URL(h, <<"/", "d">>, q) : h \in Hosts, q \in {<<>>, <<Pair("foo", <<"b", "a", "r">>)>>}}
    \cup {URL(ui \o <<"@", "a">>, p, q) : ui \in Userinfos, p \in Paths, q \in SeqsUpTo(Pairs, 1)}
    \cup {URL(<<"a", ":", "1", ",", "a", ":", "1">>, <<"/", "d">>, q) : q \in Queries}

(***************************************************************************)
(* Calls of the pure function parseMongoURL on one URL.                    *)
(***************************************************************************)
InitIdle ==
    /\ env = [MONGO |-> <<>>, MONGO_SERVERS |-> <<>>, MONGO_USER |-> <<>>,
              MONGO_PASSWORD |-> <<>>, MONGO_DATABASE |-> <<>>, MONGO_REPLICA_SET |-> <<>>,
              MONGO_AUTH_SOURCE |-> <<>>, MONGO_SSL |-> <<>>]
    /\ pc = "start"
    /\ dialinfo = <<>>
    /\ initErr = <<>>
    /\ Database = <<>>
    /\ session = <<>>
    /\ path = <<>>
    /\ dials = 0
    /\ dbWrites = 0

ParseInit ==
    /\ rawURL \in URLs
    /\ first = <<>>
    /\ second = <<>>
    /\ InitIdle

ParseFirst ==
    /\ first = <<>>
    /\ \E order \in OrdersOf(rawURL) : first' = <<parseMongoURL(rawURL, order)>>
    /\ UNCHANGED <<rawURL, second, initVars>>

ParseAgain ==
    /\ first # <<>>
    /\ second = <<>>
    /\ \E order \in OrdersOf(rawURL) : second' = <<parseMongoURL(rawURL, order)>>
    /\ UNCHANGED <<rawURL, first, initVars>>

ParseNext == ParseFirst \/ ParseAgain

SpecParse == ParseInit /\ [][ParseNext]_vars


(***************************************************************************)
(* The environment.  A variable is <<>> when unset and <<v>> when set to   *)
(* v; MONGO is set to the empty string (<<>>) or to the text of a URL      *)
(* (<<url>>).                                                              *)
(***************************************************************************)
Getenv(e, name) == IF e[name] = <<>> THEN <<>> ELSE e[name][1]

\* The configuration readers of the package.
mongoConnectionString(e) == Getenv(e, "MONGO")
mongoServers(e) == Split(Getenv(e, "MONGO_SERVERS"), ",")
mongoDB(e) == Getenv(e, "MONGO_DATABASE")
mongoPassword(e) == Getenv(e, "MONGO_PASSWORD")
mongoUser(e) == Getenv(e, "MONGO_USER")
mongoReplicaSet(e) == Getenv(e, "MONGO_REPLICA_SET")
mongoAuthSource(e) == Getenv(e, "MONGO_AUTH_SOURCE")
mongoSSL(e) == ParseBool(Getenv(e, "MONGO_SSL")).ok /\ ParseBool(Getenv(e, "MONGO_SSL")).b

\* func getDialInfoParameters
getDialInfoParameters(e) ==
    LET info == [ZeroDialInfo EXCEPT !.Addrs = mongoServers(e),
                                     !.Database = mongoDB(e),
                                     !.Password = mongoPassword(e),
                                     !.Username = mongoUser(e),
                                     !.ReplicaSetName = mongoReplicaSet(e),
                                     !.Source = mongoAuthSource(e)]
    IN  IF mongoSSL(e) THEN [info EXCEPT !.DialServer = "tls"] ELSE info

Unset == <<>>
Set(v) == <<v>>

DiscreteEnvs ==
    [MONGO_SERVERS : {Unset, Set(<<"a", ":", "1", ",", "a">>)},
     MONGO_USER : {Unset, Set(<<"u">>)},
     MONGO_PASSWORD : {Set(<<"p">>)},
     MONGO_DATABASE : {Unset, Set(<<"d">>)},
     MONGO_REPLICA_SET : {Set(<<"r">>)},
     MONGO_AUTH_SOURCE : {Set(<<"x">>)},
     MONGO_SSL : {Unset, Set(S_true), Set(<<"y", "e", "s">>)}]

NoDiscreteEnv ==
    [MONGO_SERVERS |-> Unset, MONGO_USER |-> Unset, MONGO_PASSWORD |-> Unset,
     MONGO_DATABASE |-> Unset, MONGO_REPLICA_SET |-> Unset, MONGO_AUTH_SOURCE |-> Unset,
     MONGO_SSL |-> Unset]

AllDiscreteEnv ==
    [MONGO_SERVERS |-> Set(<<"a", ":", "1">>), MONGO_USER |-> Set(<<"u">>),
     MONGO_PASSWORD |-> Set(<<"p">>), MONGO_DATABASE |-> Set(<<"d">>),
     MONGO_REPLICA_SET |-> Set(<<"r">>), MONGO_AUTH_SOURCE |-> Set(<<"x">>),
     MONGO_SSL |-> Set(S_true)]

WithMongo(d, m) ==
    [MONGO |-> m, MONGO_SERVERS |-> d.MONGO_SERVERS, MONGO_USER |-> d.MONGO_USER,
     MONGO_PASSWORD |-> d.MONGO_PASSWORD, MONGO_DATABASE |-> d.MONGO_DATABASE,
     MONGO_REPLICA_SET |-> d.MONGO_REPLICA_SET, MONGO_AUTH_SOURCE |-> d.MONGO_AUTH_SOURCE,
     MONGO_SSL |-> d.MONGO_SSL]

\* MONGO unset, empty, or one of a few URLs, with every discrete setting;
\* every query on a good and on a refused host, with none and all of the
\* discrete variables.
Envs ==
    {WithMongo(d, m) :
        d \in DiscreteEnvs,
        m \in {Unset, Set(<<>>)}
              \cup {Set(<<URL(<<"b">>, <<"/", "e">>, q)>>) :
                       q \in {<<>>, <<Pair("ssl", S_false)>>, <<Pair("foo", <<"b", "a", "r">>)>>}}}
    \cup {WithMongo(d, Set(<<URL(h, <<"/", "e">>, q)>>)) :
             d \in {NoDiscreteEnv, AllDiscreteEnv},
             h \in {<<"b", ",", "c">>, <<"b", " ">>},
             q \in Queries}

(***************************************************************************)
(* func init                                                               *)
(***************************************************************************)
Init ==
    /\ env \in Envs
    /\ pc = "start"
    /\ dialinfo = <<>>
    /\ initErr = <<>>
    /\ Database = <<>>
    /\ session = <<>>
    /\ path = <<>>
    /\ dials = 0
    /\ dbWrites = 0
    /\ rawURL = URL(<<>>, <<>>, <<>>)
    /\ first = <<>>
    /\ second = <<>>

\* The configuration step in which MONGO_SSL also applies to a parsed URL.
ResolveMergesDiscrete ==
    /\ pc = "start"
    /\ LET mongo == mongoConnectionString(env)
       IN  IF mongo = <<>>
           THEN /\ dialinfo' = <<getDialInfoParameters(env)>>
                /\ path' = Append(path, "getDialInfoParameters")
                /\ pc' = "dial"
                /\ UNCHANGED initErr
           ELSE \E order \in OrdersOf(mongo[1]) :
                    LET r == parseMongoURL(mongo[1], order)
                    IN  /\ dialinfo' = IF r.info # <<>> /\ mongoSSL(env)
                                       THEN <<[r.info[1] EXCEPT !.DialServer = "tls"]>>
                                       ELSE r.info
                        /\ path' = Append(path, "parseMongoURL")
                        /\ initErr' = r.err
                        /\ pc' = IF r.err # <<>> THEN "fatal" ELSE "dial"
    /\ UNCHANGED <<Database, session, dials, dbWrites, env, parseVars>>

\* mongo := mongoConnectionString(); dialinfo from getDialInfoParameters() or
\* from parseMongoURL(mongo), whose error is fatal (log.Fatal exits).
Resolve ==
    /\ pc = "start"
    /\ LET mongo == mongoConnectionString(env)
       IN  IF mongo = <<>>
           THEN /\ dialinfo' = <<getDialInfoParameters(env)>>
                /\ path' = Append(path, "getDialInfoParameters")
                /\ pc' = "dial"
                /\ UNCHANGED initErr
           ELSE \E order \in OrdersOf(mongo[1]) :
                    LET r == parseMongoURL(mongo[1], order)
                    IN  /\ dialinfo' = r.info
                        /\ path' = Append(path, "parseMongoURL")
                        /\ initErr' = r.err
                        /\ pc' = IF r.err # <<>> THEN "fatal" ELSE "dial"
    /\ UNCHANGED <<Database, session, dials, dbWrites, env, parseVars>>

DialError == [prefix |-> "no reachable servers", key |-> "", sep |-> "", value |-> <<>>]

\* The dial whose error is only logged.
DialIgnoresError ==
    /\ pc = "dial"
    /\ dials' = dials + 1
    /\ \E ok \in BOOLEAN :
           IF ok
           THEN session' = <<[mode |-> "Strong"]>> /\ UNCHANGED initErr
           ELSE session' = <<>> /\ initErr' = <<DialError>>
    /\ pc' = "setdb"
    /\ UNCHANGED <<Database, dialinfo, path, dbWrites, env, parseVars>>

\* session, err := mgo.DialWithInfo(dialinfo): the library returns a session
\* or an error, and the error panics (log.Panic).
Dial ==
    /\ pc = "dial"
    /\ dials' = dials + 1
    /\ \E ok \in BOOLEAN :
           IF ok
           THEN session' = <<[mode |-> "Strong"]>> /\ pc' = "setdb" /\ UNCHANGED initErr
           ELSE session' = <<>> /\ pc' = "panic" /\ initErr' = <<DialError>>
    /\ UNCHANGED <<Database, dialinfo, path, dbWrites, env, parseVars>>

\* session.SetMode(mgo.Monotonic, true); Database = session.DB(dialinfo.Database)
SetDatabase ==
    /\ pc = "setdb"
    /\ session' = IF session = <<>> THEN session ELSE <<[mode |-> "Monotonic"]>>
    /\ Database' = <<[Session |-> session', Name |-> dialinfo[1].Database]>>
    /\ dbWrites' = dbWrites + 1
    /\ pc' = "running"
    /\ UNCHANGED <<dialinfo, initErr, path, dials, env, parseVars>>

Next == Resolve \/ Dial \/ SetDatabase

Spec == Init /\ [][Next]_vars

(***************************************************************************)
(* Vocabulary of the properties of parseMongoURL.  It reads the query      *)
(* string as written, not the map the code builds from it.                 *)
(***************************************************************************)
Recognised ==
    {"authSource", "authMechanism", "gssapiServiceName", "replicaSet", "maxPoolSize", "ssl",
     "connect"}

TrueSpellings == {<<"1">>, <<"t">>, <<"T">>, S_TRUE, S_true, S_True}

\* The results of the calls made so far.
Calls == {first[i] : i \in 1..Len(first)} \cup {second[i] : i \in 1..Len(second)}

Valid(raw) == urlParse(raw).ok

KeysOf(raw) == {raw.RawQuery[i].key : i \in 1..Len(raw.RawQuery)}

\* The value of the leftmost pair with key k.
FirstOf(raw, k) ==
    LET at == {i \in 1..Len(raw.RawQuery) : raw.RawQuery[i].key = k}
    IN  raw.RawQuery[CHOOSE i \in at : \A j \in at : i <= j].value

Unsupported(k, v) ==
    [prefix |-> "unsupported connection URL option: ", key |-> k, sep |-> "=", value |-> v]

Invalid(k, v) ==
    [prefix |-> IF k = "ssl" THEN "bad value for ssl: " ELSE "bad value for maxPoolSize: ",
     key |-> "", sep |-> "", value |-> v]

\* Key k of the query is one the loop fails on when it visits it.
Offending(raw, k) ==
    \/ k \notin Recognised
    \/ k = "maxPoolSize" /\ ~Atoi(FirstOf(raw, k)).ok
    \/ k = "ssl" /\ ~ParseBool(FirstOf(raw, k)).ok
    \/ k = "connect" /\ FirstOf(raw, k) \notin {S_direct, S_replicaSet}

OffendingKeys(raw) == {k \in KeysOf(raw) : Offending(raw, k)}

\* The error the loop returns when it fails on key k.
ErrorFor(raw, k) ==
    IF k \in {"maxPoolSize", "ssl"} THEN Invalid(k, FirstOf(raw, k))
    ELSE Unsupported(k, FirstOf(raw, k))

\* The call failed, with the error of one of the offending keys of the query.
FailsOnAnOffendingKey(r, raw) ==
    /\ r.info = <<>>
    /\ r.err # <<>>
    /\ \E k \in OffendingKeys(raw) : r.err[1] = ErrorFor(raw, k)

\* raw without the pairs whose key is k.
RECURSIVE DropKey(_, _)
DropKey(pairs, k) ==
    IF pairs = <<>> THEN <<>>
    ELSE IF Head(pairs).key = k THEN DropKey(Tail(pairs), k)
    ELSE <<Head(pairs)>> \o DropKey(Tail(pairs), k)

Without(raw, k) == [raw EXCEPT !.RawQuery = DropKey(raw.RawQuery, k)]

RECURSIVE Join(_, _)
Join(segs, sep) ==
    IF Len(segs) = 0 THEN <<>>
    ELSE IF Len(segs) = 1 THEN segs[1]
    ELSE segs[1] \o <<sep>> \o Join(Tail(segs), sep)

(***************************************************************************)
(* C2 as stated: a URL with an unrecognised key always fails with the      *)
(* unsupported-option error naming an unrecognised key and its value.      *)
(***************************************************************************)
C2_AlwaysUnsupportedOption ==
    \A r \in Calls :
        Valid(rawURL) /\ KeysOf(rawURL) \ Recognised # {} =>
            /\ r.info = <<>>
            /\ r.err # <<>>
            /\ \E k \in KeysOf(rawURL) \ Recognised :
                   r.err[1] = Unsupported(k, FirstOf(rawURL, k))

(***************************************************************************)
(* C2 amended: a URL that url.Parse accepts and that has an unrecognised   *)
(* key always fails and returns no descriptor; the error is that of one    *)
(* offending key of the query (the one the loop visits first), and it is   *)
(* the unsupported-option error with an unrecognised key and its first     *)
(* value whenever no recognised key of the query has a bad value.          *)
(***************************************************************************)
C2_UnknownKeyFails ==
    \A r \in Calls :
        Valid(rawURL) /\ KeysOf(rawURL) \ Recognised # {} =>
            /\ FailsOnAnOffendingKey(r, rawURL)
            /\ OffendingKeys(rawURL) \subseteq KeysOf(rawURL) \ Recognised =>
                   \E k \in KeysOf(rawURL) \ Recognised :
                       r.err[1] = Unsupported(k, FirstOf(rawURL, k))

C2_Witness ==
    \E r \in Calls :
        /\ Valid(rawURL)
        /\ KeysOf(rawURL) = {"foo", "maxPoolSize"}
        /\ r.info = <<>>
        /\ r.err = <<Unsupported("foo", <<"b", "a", "r">>)>>

(***************************************************************************)
(* C3 as stated: a maxPoolSize value that is no integer, or an ssl value   *)
(* that is no boolean, always fails the parse with the bad-value error of  *)
(* that key.                                                               *)
(***************************************************************************)
C3_AlwaysInvalidOption ==
    \A r \in Calls : \A k \in {"maxPoolSize", "ssl"} \cap KeysOf(rawURL) :
        Valid(rawURL) /\ Offending(rawURL, k) =>
            /\ r.info = <<>>
            /\ r.err = <<Invalid(k, FirstOf(rawURL, k))>>

(***************************************************************************)
(* C3 amended: a maxPoolSize key whose first value is no integer, or an    *)
(* ssl key whose first value is no boolean, always fails the parse and     *)
(* returns no descriptor; the error is that of one offending key of the    *)
(* query (the one the loop visits first), and it is the bad-value error of *)
(* that key and value whenever it is the only offending key.               *)
(***************************************************************************)
C3_BadValueFails ==
    \A r \in Calls : \A k \in {"maxPoolSize", "ssl"} \cap KeysOf(rawURL) :
        Valid(rawURL) /\ Offending(rawURL, k) =>
            /\ FailsOnAnOffendingKey(r, rawURL)
            /\ OffendingKeys(rawURL) = {k} => r.err = <<Invalid(k, FirstOf(rawURL, k))>>

C3_Witness ==
    \E r \in Calls :
        /\ Valid(rawURL)
        /\ rawURL.RawQuery = <<Pair("replicaSet", <<"r">>), Pair("maxPoolSize", <<"a", "b", "c">>)>>
        /\ r.info = <<>>
        /\ r.err = <<Invalid("maxPoolSize", <<"a", "b", "c">>)>>

(***************************************************************************)
(* C4 as stated: in every descriptor returned, PoolLimit is unset (no      *)
(* maxPoolSize key) or positive.                                           *)
(***************************************************************************)
C4_PoolLimitPositive ==
    \A r \in Calls :
        r.info # <<>> =>
            \/ "maxPoolSize" \notin KeysOf(rawURL) /\ r.info[1].PoolLimit = 0
            \/ r.info[1].PoolLimit > 0

(***************************************************************************)
(* C5: a returned descriptor dials with TLS exactly when the query has the *)
(* key ssl and the first value written for it spells true; otherwise it    *)
(* has no dial function.                                                   *)
(***************************************************************************)
C5_TLSIffFirstSslTrue ==
    \A r \in Calls :
        r.info # <<>> =>
            /\ r.info[1].DialServer \in {"nil", "tls"}
            /\ r.info[1].DialServer = "tls" <=>
                   "ssl" \in KeysOf(rawURL) /\ FirstOf(rawURL, "ssl") \in TrueSpellings

C5_Witness ==
    \E r \in Calls :
        /\ rawURL.RawQuery = <<Pair("ssl", S_true), Pair("ssl", S_false)>>
        /\ r.info # <<>>
        /\ r.info[1].DialServer = "tls"


(***************************************************************************)
(* C6 as stated: connect=direct sets Direct, connect=replicaSet changes no *)
(* field, any other value of connect fails the parse with the              *)
(* unsupported-option error naming connect and the value, and Direct is    *)
(* false in every descriptor produced without connect=direct.              *)
(***************************************************************************)
C6_ConnectAlwaysNamed ==
    \A r \in Calls :
        LET has == "connect" \in KeysOf(rawURL)
            v == FirstOf(rawURL, "connect")
        IN  /\ r.info # <<>> => (r.info[1].Direct <=> has /\ v = S_direct)
            /\ r.info # <<>> /\ has /\ v = S_replicaSet =>
                   \E x \in Results(Without(rawURL, "connect")) : x.info = r.info
            /\ Valid(rawURL) /\ has /\ v \notin {S_direct, S_replicaSet} =>
                   /\ r.info = <<>>
                   /\ r.err = <<Unsupported("connect", v)>>

(***************************************************************************)
(* C6 amended: in every descriptor returned, Direct is true exactly when   *)
(* the first value of connect is "direct"; with connect=replicaSet the     *)
(* descriptor is the one the URL without the connect key gives; any other  *)
(* first value of connect fails the parse and returns no descriptor, with  *)
(* the error of one offending key of the query (the one the loop visits    *)
(* first), which is the unsupported-option error naming connect and the    *)
(* value whenever connect is the only offending key.                       *)
(***************************************************************************)
C6_ConnectKey ==
    \A r \in Calls :
        LET has == "connect" \in KeysOf(rawURL)
            v == FirstOf(rawURL, "connect")
        IN  /\ r.info # <<>> => (r.info[1].Direct <=> has /\ v = S_direct)
            /\ r.info # <<>> /\ has /\ v = S_replicaSet =>
                   \E x \in Results(Without(rawURL, "connect")) : x.info = r.info
            /\ Valid(rawURL) /\ has /\ v \notin {S_direct, S_replicaSet} =>
                   /\ FailsOnAnOffendingKey(r, rawURL)
                   /\ OffendingKeys(rawURL) = {"connect"} =>
                          r.err = <<Unsupported("connect", v)>>

C6_Witness ==
    \E r \in Calls :
        /\ Valid(rawURL)
        /\ rawURL.RawQuery = <<Pair("ssl", S_true), Pair("connect", <<"b", "o", "g", "u", "s">>)>>
        /\ r.info = <<>>
        /\ r.err = <<Unsupported("connect", <<"b", "o", "g", "u", "s">>)>>

(***************************************************************************)
(* C7: two calls on the same URL that both return a descriptor return the  *)
(* same descriptor, whatever order each call visited the keys in.          *)
(***************************************************************************)
C7_SameDescriptorTwice ==
    first # <<>> /\ second # <<>> /\ first[1].info # <<>> /\ second[1].info # <<>> =>
        first[1].info = second[1].info

C7_Witness ==
    /\ first # <<>> /\ second # <<>>
    /\ first[1].info # <<>> /\ second[1].info # <<>>
    /\ KeysOf(rawURL) = {"connect", "replicaSet"}
    /\ first[1].info[1].Direct
    /\ first[1].info[1].ReplicaSetName = <<"r">>

(***************************************************************************)
(* C9: in every descriptor returned, Addrs is a non-empty sequence of      *)
(* comma-free segments which, joined by ',' in their order, give the host  *)
(* component of the URL.                                                   *)
(***************************************************************************)
C9_AddrsAreTheHostSegments ==
    \A r \in Calls :
        r.info # <<>> =>
            LET addrs == r.info[1].Addrs
            IN  /\ Len(addrs) >= 1
                /\ \A i \in 1..Len(addrs) : \A j \in 1..Len(addrs[i]) : addrs[i][j] # ","
                /\ Join(addrs, ",") = urlParse(rawURL).url.Host

C9_Witness ==
    \E r \in Calls :
        /\ r.info # <<>>
        /\ urlParse(rawURL).url.Host = <<"a", ":", "1", ",", "a", ":", "1">>
        /\ r.info[1].Addrs = << <<"a", ":", "1">>, <<"a", ":", "1">> >>

(***************************************************************************)
(* C10: a call on a URL that url.Parse accepts fails exactly when the      *)
(* query has an offending key (unrecognised, maxPoolSize with a first      *)
(* value that is no integer, ssl with a first value that is no boolean,    *)
(* connect with a first value other than direct and replicaSet), whatever  *)
(* order the keys were visited in; a failed call returns an error and no   *)
(* descriptor, a successful one a descriptor and no error.                 *)
(***************************************************************************)
C10_FailsIffOffendingKey ==
    \A r \in Calls :
        /\ r.info = <<>> <=> r.err # <<>>
        /\ Valid(rawURL) => (r.info = <<>> <=> OffendingKeys(rawURL) # {})

C10_Witness ==
    \E r \in Calls :
        /\ Valid(rawURL)
        /\ rawURL.RawQuery = <<Pair("replicaSet", <<"r">>), Pair("ssl", <<"y", "e", "s">>)>>
        /\ r.info = <<>>
        /\ r.err # <<>>


(***************************************************************************)
(* C1: once init has resolved the configuration it has called exactly one  *)
(* of the two functions: with MONGO unset or empty, getDialInfoParameters, *)
(* and the descriptor is what it builds from the discrete variables; with  *)
(* MONGO non-empty, parseMongoURL, and the descriptor is a result of       *)
(* parseMongoURL on the value of MONGO alone, whatever the discrete        *)
(* variables are set to.                                                   *)
(***************************************************************************)
C1_ExactlyOnePath ==
    /\ pc = "start" => path = <<>> /\ dialinfo = <<>>
    /\ pc # "start" =>
           IF env.MONGO \in {Unset, Set(<<>>)}
           THEN /\ path = <<"getDialInfoParameters">>
                /\ dialinfo = <<getDialInfoParameters(env)>>
           ELSE /\ path = <<"parseMongoURL">>
                /\ \E r \in Results(env.MONGO[1][1]) : dialinfo = r.info

C1_Witness ==
    /\ pc = "dial"
    /\ env.MONGO = Set(<<URL(<<"b">>, <<"/", "e">>, <<>>)>>)
    /\ env.MONGO_SSL = Set(S_true)
    /\ env.MONGO_SERVERS = Set(<<"a", ":", "1", ",", "a">>)
    /\ env.MONGO_DATABASE = Set(<<"d">>)
    /\ dialinfo[1].DialServer = "nil"
    /\ dialinfo[1].Addrs = << <<"b">> >>
    /\ dialinfo[1].Database = <<"e">>

(***************************************************************************)
(* C8: Database is assigned at most once, and only after the configuration *)
(* was resolved without error and the one dial returned a session; a URL   *)
(* that fails to parse ends init (fatal) before any dial; a failed dial    *)
(* ends init (panic) with Database unset; init returns only with Database  *)
(* set, for the database the descriptor names on the dialled session.      *)
(***************************************************************************)
C8_HandleOnlyAfterDial ==
    /\ pc \in {"start", "dial", "setdb", "running", "fatal", "panic"}
    /\ dbWrites <= 1 /\ dials <= 1
    /\ Database # <<>> <=> dbWrites = 1
    /\ Database # <<>> =>
           /\ dialinfo # <<>> /\ initErr = <<>>
           /\ session # <<>> /\ dials = 1
           /\ Database = <<[Session |-> session, Name |-> dialinfo[1].Database]>>
    /\ path = <<"parseMongoURL">> /\ dialinfo = <<>> => pc = "fatal"
    /\ pc = "fatal" => dials = 0 /\ Database = <<>> /\ initErr # <<>>
    /\ pc = "panic" => dials = 1 /\ Database = <<>> /\ session = <<>> /\ initErr # <<>>
    /\ pc = "running" <=> Database # <<>>

C8_Witness ==
    /\ pc = "running"
    /\ path = <<"parseMongoURL">>
    /\ dials = 1 /\ dbWrites = 1
    /\ Database = <<[Session |-> <<[mode |-> "Monotonic"]>>, Name |-> <<"e">>]>>

====
